---- MODULE Spec2Model ----
(***************************************************************************)
(* A model of the torch_xla IR node (XlaNode, ir.h) and of the AllReduce   *)
(* collective node (ops/all_reduce.cpp): construction, Clone, the sharding *)
(* annotations and the identity hashes, NodeCast, and Lower.               *)
(*                                                                         *)
(* A graph is the sequence of its nodes in construction order; a           *)
(* torch::lazy::Value is [node |-> position in the sequence, index |->     *)
(* output index], so operand edges always point to existing nodes.         *)
(* torch::lazy::hash_t is kept at HashBits bits.                           *)
(***************************************************************************)
EXTENDS Integers, Sequences, FiniteSets

VARIABLES nodes, loctx, ret

vars == <<nodes, loctx, ret>>

(***************************************************************************)
(* Bounds.                                                                 *)
(***************************************************************************)
\* width of hash_t in the model
HashBits == 8
\* nodes a graph built by Spec may hold
MaxNodes == 3
\* operand references (edges) a graph built by Spec may hold
MaxEdges == 4
\* data operands of the reduction node in the graphs SpecSharding and
\* SpecLowering start from
MaxInputs == 2

HashMod == 2 ^ HashBits

(***************************************************************************)
(* torch::lazy hashing, at HashBits bits.                                  *)
(***************************************************************************)
\* torch::lazy::HashCombine mixes b into a:
\* a ^ (b * 0x27d4eb2f165667c5 + 0x9e3779b97f4a7c15 + (a << 6) + (a >> 2)).
\* Here the constants are cut to their low 16 bits and the exclusive or is
\* taken as an addition.
HashCombine(a, b) ==
    (a + b * 26565 + 31765 + a * 64 + (a \div 4)) % HashMod

\* Hash of a scalar: the value mixed into a fixed seed
Hash(x) == HashCombine(x % HashMod, 174)

\* Hash of a container: every element folded in, in order
RECURSIVE ContainerHash(_)
ContainerHash(s) ==
    IF s = <<>> THEN 99
    ELSE HashCombine(ContainerHash(SubSeq(s, 1, Len(s) - 1)), Hash(s[Len(s)]))

\* Hash of std::vector<std::vector<int64_t>>
RECURSIVE GroupsHash(_)
GroupsHash(g) ==
    IF g = <<>> THEN 99
    ELSE HashCombine(GroupsHash(SubSeq(g, 1, Len(g) - 1)),
                     ContainerHash(g[Len(g)]))

\* MHash(h1, ..., hn) over already hashed arguments:
\* HashCombine(h1, MHash(h2, ..., hn)), MHash() a fixed seed
RECURSIVE MHash(_)
MHash(hs) ==
    IF hs = <<>> THEN 31225 % HashMod
    ELSE HashCombine(Head(hs), MHash(Tail(hs)))

BoolHash(b) == Hash(IF b THEN 1 ELSE 0)

\* (uint32_t)0x5a2d296e9, its low byte
default_hash_seed == 233

(***************************************************************************)
(* xla::Shape: an array shape or a tuple of shapes.                        *)
(***************************************************************************)
ArrayShape(ty, dims) ==
    [is_tuple |-> FALSE, element_type |-> ty, dimensions |-> dims,
     tuple_shapes |-> <<>>]

MakeTupleShape(shapes) ==
    [is_tuple |-> TRUE, element_type |-> "tuple", dimensions |-> <<>>,
     tuple_shapes |-> shapes]

F32_4x4 == ArrayShape("f32", <<4, 4>>)
U32_Scalar == ArrayShape("u32", <<>>)
LeafShapes == {F32_4x4, U32_Scalar}

ElementTypeCode(ty) == IF ty = "f32" THEN 11 ELSE IF ty = "u32" THEN 8 ELSE 13

RECURSIVE ShapeHash(_)
ShapeHash(shape) ==
    IF shape.is_tuple
    THEN IF shape.tuple_shapes = <<>> THEN Hash(ElementTypeCode("tuple"))
         ELSE HashCombine(
                ShapeHash(MakeTupleShape(SubSeq(shape.tuple_shapes, 1,
                                                Len(shape.tuple_shapes) - 1))),
                ShapeHash(shape.tuple_shapes[Len(shape.tuple_shapes)]))
    ELSE HashCombine(Hash(ElementTypeCode(shape.element_type)),
                     ContainerHash(shape.dimensions))

(***************************************************************************)
(* Operation kinds and concrete node classes.                              *)
(***************************************************************************)
xla_device_data == "xla::device_data"
xla_cross_replica_sum == "xla::cross_replica_sum"
OpKinds == {xla_device_data, xla_cross_replica_sum}
OpKindHash(op) == Hash(IF op = xla_device_data THEN 3 ELSE 5)

NodeClasses == {"XlaNode", "AllReduce"}
\* T is the node's class or a base of it
IsA(class, T) == class = T \/ T = "XlaNode"

NoSharding == "null"
Shardings == {"replicated", "tiled"}
ShardingCode(s) == IF s = "replicated" THEN 1 ELSE 2

(***************************************************************************)
(* XlaNode: identity accessors.                                            *)
(***************************************************************************)
\* shapeHash() returning what hash() returns
shapeHash_WithSharding(n) ==
    IF n.sharding_hash # 0 THEN HashCombine(n.dag_hash, n.sharding_hash)
    ELSE n.dag_hash

shapeHash(n) == n.dag_hash

shardingHash(n) == n.sharding_hash

\* hash() combining the sharding hash in every case
hash_AlwaysCombined(n) == HashCombine(n.dag_hash, n.sharding_hash)

hash(n) ==
    IF n.sharding_hash # 0 THEN HashCombine(n.dag_hash, n.sharding_hash)
    ELSE n.dag_hash

\* xla_shape(output_index): the element of a tuple shape, else the shape
xla_shape_at(n, output_index) ==
    IF n.xla_shape.is_tuple THEN n.xla_shape.tuple_shapes[output_index + 1]
    ELSE n.xla_shape

\* GetXlaShape(value): the shape of the output the value refers to
GetXlaShape(g, value) == xla_shape_at(g[value.node], value.index)

GetOpHash(op, shape, hash_seed) ==
    HashCombine(HashCombine(OpKindHash(op), ShapeHash(shape)), hash_seed)

\* the hash of an operand: the dag hash of its node and the output index
OperandHash(g, value) == HashCombine(shapeHash(g[value.node]), Hash(value.index))

RECURSIVE GetOperandHashes(_, _, _)
GetOperandHashes(g, operands, node_hash) ==
    IF operands = <<>> THEN node_hash
    ELSE HashCombine(
           GetOperandHashes(g, SubSeq(operands, 1, Len(operands) - 1), node_hash),
           OperandHash(g, operands[Len(operands)]))

\* XlaNode(op, operands, xla_shape, num_outputs, hash_seed); the fields of
\* the derived class start at the values of a node that has none
XlaNode(g, op, operands, shape, num_outputs, hash_seed) ==
    [op |-> op, class |-> "XlaNode", operands |-> operands,
     xla_shape |-> shape, num_outputs |-> num_outputs,
     node_hash |-> GetOpHash(op, shape, hash_seed),
     dag_hash |-> GetOperandHashes(g, operands, GetOpHash(op, shape, hash_seed)),
     sharding_hash |-> 0, output_shardings |-> <<>>,
     unbounded_dynamic_dims |-> {},
     reduce_type |-> 0, scale |-> 0, groups |-> <<>>, pin_layout |-> FALSE,
     has_token |-> FALSE]

(***************************************************************************)
(* AllReduce (ops/all_reduce.cpp).                                         *)
(***************************************************************************)
\* the parameters a reduction node is constructed with: reduce type, scale
\* (in tenths), groups and pin_layout
ParamChoices ==
    {[reduce_type |-> 0, scale |-> 10, groups |-> << <<0, 1>>, <<2, 3>> >>,
      pin_layout |-> FALSE],
     [reduce_type |-> 0, scale |-> 10, groups |-> << <<0, 1>>, <<2, 3>> >>,
      pin_layout |-> TRUE],
     [reduce_type |-> 1, scale |-> 5, groups |-> <<>>, pin_layout |-> FALSE]}

\* the operand list of the operand-list form: the data operands, then the token
GetOperandListWithToken(operands, token) == Append(operands, token)

\* has_token_ where a constructor does not set it
has_token_default == TRUE

NodeOutputShape_NoToken(g, operands, token) ==
    MakeTupleShape([i \in 1..Len(operands) |-> GetXlaShape(g, operands[i])])

NodeOutputShape(g, operands, token) ==
    MakeTupleShape(Append([i \in 1..Len(operands) |-> GetXlaShape(g, operands[i])],
                          GetXlaShape(g, token)))

\* the operand-list constructor with pin_layout_(false) in its initializers
AllReduce_PinNotStored(g, reduce_type, operands, token, scale, groups, pin_layout) ==
    [XlaNode(g, xla_cross_replica_sum, GetOperandListWithToken(operands, token),
             NodeOutputShape(g, operands, token), Len(operands) + 1,
             MHash(<<Hash(reduce_type), Hash(scale), GroupsHash(groups),
                     BoolHash(pin_layout)>>))
     EXCEPT !.class = "AllReduce", !.reduce_type = reduce_type,
            !.scale = scale, !.groups = groups, !.pin_layout = FALSE,
            !.has_token = has_token_default]

\* AllReduce(reduce_type, operands, token, scale, groups, pin_layout)
AllReduce(g, reduce_type, operands, token, scale, groups, pin_layout) ==
    [XlaNode(g, xla_cross_replica_sum, GetOperandListWithToken(operands, token),
             NodeOutputShape(g, operands, token), Len(operands) + 1,
             MHash(<<Hash(reduce_type), Hash(scale), GroupsHash(groups),
                     BoolHash(pin_layout)>>))
     EXCEPT !.class = "AllReduce", !.reduce_type = reduce_type,
            !.scale = scale, !.groups = groups, !.pin_layout = pin_layout,
            !.has_token = has_token_default]

\* AllReduce(reduce_type, operand, scale, groups)
AllReduceSingle(g, reduce_type, operand, scale, groups) ==
    [XlaNode(g, xla_cross_replica_sum, <<operand>>, GetXlaShape(g, operand), 1,
             MHash(<<Hash(reduce_type), Hash(scale), GroupsHash(groups)>>))
     EXCEPT !.class = "AllReduce", !.reduce_type = reduce_type,
            !.scale = scale, !.groups = groups, !.pin_layout = FALSE,
            !.has_token = FALSE]

\* Clone with operand_list(operands.begin(), operands.end())
Clone_KeepsLast(g, self, operands) ==
    AllReduce(g, self.reduce_type, operands, operands[Len(operands)],
              self.scale, self.groups, self.pin_layout)

\* AllReduce::Clone(operands)
Clone(g, self, operands) ==
    AllReduce(g, self.reduce_type, SubSeq(operands, 1, Len(operands) - 1),
              operands[Len(operands)], self.scale, self.groups, self.pin_layout)

(***************************************************************************)
(* The values a graph offers as operands, and the record of the last call. *)
(***************************************************************************)
Values(g) ==
    UNION {{[node |-> n, index |-> i] : i \in 0..(g[n].num_outputs - 1)} :
            n \in 1..Len(g)}

SeqsUpTo(S, k) == UNION {[1..j -> S] : j \in 0..k}

\* the operand references of a graph
RECURSIVE Edges(_)
Edges(g) ==
    IF g = <<>> THEN 0
    ELSE Edges(SubSeq(g, 1, Len(g) - 1)) + Len(g[Len(g)].operands)

Call(op, self, args, result, pre) ==
    [op |-> op, self |-> self, args |-> args, result |-> result, pre |-> pre]

NoCall == Call("none", 0, <<>>, <<>>, FALSE)

\* LoweringContext: the outputs emitted so far, each with its backend
\* handle, and the number of handles the builder has given out
EmptyContext == [emitted_outputs |-> {}, num_ops |-> 0]

(***************************************************************************)
(* Spec: graphs are built by the constructors and by Clone.                *)
(***************************************************************************)
Init ==
    /\ nodes = <<>>
    /\ loctx = EmptyContext
    /\ ret = NoCall

\* a leaf node: XlaNode(op, xla_shape, num_outputs, hash_seed)
NewLeaf(shape) ==
    /\ Len(nodes) < MaxNodes
    /\ nodes' = Append(nodes, XlaNode(nodes, xla_device_data, <<>>, shape, 1,
                                      default_hash_seed))
    /\ ret' = Call("XlaNode", 0, <<>>, Len(nodes) + 1, FALSE)
    /\ UNCHANGED loctx

NewAllReduce(p, operands, token) ==
    /\ Len(nodes) < MaxNodes
    /\ Edges(nodes) + Len(operands) + 1 <= MaxEdges
    /\ nodes' = Append(nodes, AllReduce(nodes, p.reduce_type, operands, token,
                                        p.scale, p.groups, p.pin_layout))
    /\ ret' = Call("AllReduce", 0, <<>>, Len(nodes) + 1, FALSE)
    /\ UNCHANGED loctx

NewAllReduceSingle(p, operand) ==
    /\ Len(nodes) < MaxNodes
    /\ Edges(nodes) + 1 <= MaxEdges
    /\ nodes' = Append(nodes, AllReduceSingle(nodes, p.reduce_type, operand,
                                              p.scale, p.groups))
    /\ ret' = Call("AllReduceSingle", 0, <<>>, Len(nodes) + 1, FALSE)
    /\ UNCHANGED loctx

\* n->Clone(operands), with an operand list of the arity of n's
CloneNode(n, operands) ==
    /\ Len(nodes) < MaxNodes
    /\ nodes[n].class = "AllReduce"
    /\ Len(operands) = Len(nodes[n].operands)
    /\ Edges(nodes) + Len(operands) <= MaxEdges
    /\ nodes' = Append(nodes, Clone(nodes, nodes[n], operands))
    /\ ret' = Call("Clone", n, operands, Len(nodes) + 1, FALSE)
    /\ UNCHANGED loctx

\* the data operands a new node may take within the bound on edges
DataLists == SeqsUpTo(Values(nodes), MaxEdges - Edges(nodes) - 1)

\* the operand lists Clone may be given for node n within the bound on edges
CloneLists(n) ==
    IF nodes[n].class = "AllReduce"
       /\ Edges(nodes) + Len(nodes[n].operands) <= MaxEdges
    THEN [1..Len(nodes[n].operands) -> Values(nodes)]
    ELSE {}

Next ==
    \/ \E shape \in LeafShapes : NewLeaf(shape)
    \/ \E p \in ParamChoices, operands \in DataLists, token \in Values(nodes) :
          NewAllReduce(p, operands, token)
    \/ \E p \in ParamChoices, operand \in Values(nodes) :
          NewAllReduceSingle(p, operand)
    \/ \E n \in 1..Len(nodes) :
          \E operands \in CloneLists(n) : CloneNode(n, operands)

Spec == Init /\ [][Next]_vars

(***************************************************************************)
(* Properties of construction and Clone, checked under Spec.               *)
(***************************************************************************)
IsReduction(n) == n.class = "AllReduce"

SameParameters(a, b) ==
    /\ a.reduce_type = b.reduce_type
    /\ a.scale = b.scale
    /\ a.groups = b.groups
    /\ a.pin_layout = b.pin_layout

\* the node and the arguments of the last Clone call, and the node it returned
CloneSelf == nodes[ret.self]
CloneArgs == ret.args
CloneResult == nodes[ret.result]

\* C1: Clone returns a node of the form of the node it is called on, over
\* the new operands and with the same reduce type, scale, groups and
\* pin_layout: a token-bearing node clones to a token-bearing node whose data
\* operands are all but the last new operand and whose token is the last; a
\* no-token node clones to a no-token single-operand node over ops[0].
C1_CloneKeepsForm ==
    ret.op = "Clone" =>
       /\ IsReduction(CloneResult)
       /\ SameParameters(CloneResult, CloneSelf)
       /\ CloneResult.has_token = CloneSelf.has_token
       /\ CloneSelf.has_token =>
             /\ CloneResult.operands = CloneArgs
             /\ CloneResult.num_outputs = Len(CloneArgs)
       /\ ~CloneSelf.has_token =>
             /\ CloneResult.operands = <<CloneArgs[1]>>
             /\ CloneResult.num_outputs = 1
             /\ ~CloneResult.xla_shape.is_tuple

\* C8: Clone on a token-bearing node, given as many operands as the node
\* has, returns a token-bearing node whose data operands are all but the
\* last of them (one fewer than the operands of the original), whose token
\* is the last, and whose num_outputs is the original's.
C8_CloneTokenNode ==
    (ret.op = "Clone" /\ CloneSelf.has_token) =>
       /\ CloneResult.has_token
       /\ Len(CloneResult.operands) - 1 = Len(CloneSelf.operands) - 1
       /\ SubSeq(CloneResult.operands, 1, Len(CloneResult.operands) - 1)
            = SubSeq(CloneArgs, 1, Len(CloneArgs) - 1)
       /\ CloneResult.operands[Len(CloneResult.operands)]
            = CloneArgs[Len(CloneArgs)]
       /\ CloneResult.num_outputs = CloneSelf.num_outputs

\* a token-bearing node with a data operand was cloned over a data operand
\* that is not the value given as token
C8_Witness ==
    /\ ret.op = "Clone"
    /\ CloneSelf.has_token
    /\ Len(CloneArgs) >= 2
    /\ CloneArgs[1] # CloneArgs[Len(CloneArgs)]

\* C6: every reduction node's shape has the arity of its outputs. With a
\* token: N data operands, num_outputs = N + 1, a tuple shape of N + 1
\* elements, element i the shape of operand i, the token's last. Without:
\* num_outputs = 1 and the non-tuple shape of the operand. So the shape of
\* output i exists for every i below num_outputs.
C6_ShapeArity ==
    \A k \in 1..Len(nodes) :
       LET n == nodes[k] IN
       IsReduction(n) =>
          /\ IF n.has_token
             THEN /\ n.num_outputs = (Len(n.operands) - 1) + 1
                  /\ n.xla_shape.is_tuple
                  /\ Len(n.xla_shape.tuple_shapes) = n.num_outputs
                  /\ \A i \in 1..Len(n.operands) :
                        n.xla_shape.tuple_shapes[i]
                          = GetXlaShape(nodes, n.operands[i])
             ELSE /\ n.num_outputs = 1
                  /\ ~n.xla_shape.is_tuple
                  /\ n.xla_shape = GetXlaShape(nodes, n.operands[1])
          /\ \A i \in 0..(n.num_outputs - 1) :
                /\ n.xla_shape.is_tuple => i + 1 \in DOMAIN n.xla_shape.tuple_shapes
                /\ ~n.xla_shape.is_tuple => i = 0
                /\ ~xla_shape_at(n, i).is_tuple

\* a token-bearing node over a data operand and a token of another shape
C6_Witness ==
    \E k \in 1..Len(nodes) :
       /\ IsReduction(nodes[k]) /\ nodes[k].has_token
       /\ Len(nodes[k].operands) >= 2
       /\ GetXlaShape(nodes, nodes[k].operands[1])
            # GetXlaShape(nodes, nodes[k].operands[Len(nodes[k].operands)])

\* the operands of a and b are the same outputs of the same nodes, or of
\* nodes of equal dag hash
SameOperandIdentities(a, b) ==
    /\ Len(a.operands) = Len(b.operands)
    /\ \A i \in 1..Len(a.operands) :
          /\ a.operands[i].index = b.operands[i].index
          /\ \/ a.operands[i].node = b.operands[i].node
             \/ nodes[a.operands[i].node].dag_hash
                  = nodes[b.operands[i].node].dag_hash

StructurallyIdentical(a, b) ==
    /\ a.op = b.op
    /\ a.class = b.class
    /\ SameOperandIdentities(a, b)
    /\ a.xla_shape = b.xla_shape
    /\ SameParameters(a, b)

RECURSIVE ShardingListHash(_)
ShardingListHash(shardings) ==
    IF shardings = <<>> THEN 0
    ELSE LET h == HashCombine(
                    ShardingListHash(SubSeq(shardings, 1, Len(shardings) - 1)),
                    Hash(Len(shardings) - 1))
         IN IF shardings[Len(shardings)] = NoSharding THEN h
            ELSE HashCombine(h, Hash(ShardingCode(shardings[Len(shardings)])))

UpdateShardingHash(n) ==
    [n EXCEPT !.sharding_hash = ShardingListHash(n.output_shardings)]

\* SetSharding(sharding, index): the list gets an entry per output on first
\* use, the entry of the output is set and the sharding hash recomputed
SetShardingOn(n, sharding, index) ==
    UpdateShardingHash(
       [n EXCEPT !.output_shardings =
           [(IF n.output_shardings = <<>>
             THEN [i \in 1..n.num_outputs |-> NoSharding]
             ELSE n.output_shardings) EXCEPT ![index + 1] = sharding]])

\* GetSharding(index); a null pointer is NoSharding
GetSharding(n, index) ==
    IF Len(n.output_shardings) = 0 THEN NoSharding
    ELSE n.output_shardings[index + 1]

\* ClearSharding without sharding_hash_ = 0
ClearShardingOn_KeepsHash(n) == [n EXCEPT !.output_shardings = <<>>]

ClearShardingOn(n) == [n EXCEPT !.output_shardings = <<>>, !.sharding_hash = 0]

MarkDynamicDimensionOn(n, dim) ==
    [n EXCEPT !.unbounded_dynamic_dims = @ \cup {dim}]

V(n, i) == [node |-> n, index |-> i]

\* a leaf
OneLeaf == <<XlaNode(<<>>, xla_device_data, <<>>, F32_4x4, 1, default_hash_seed)>>

\* two leaves: a data tensor and a token
TwoLeaves(op) ==
    <<XlaNode(<<>>, xla_device_data, <<>>, F32_4x4, 1, default_hash_seed),
      XlaNode(<<>>, op, <<>>, U32_Scalar, 1, default_hash_seed)>>

\* the reduction nodes either constructor builds over graph g from the given
\* data operand lists and tokens
ReductionsOver(g, lists, tokens) ==
    {AllReduce(g, p.reduce_type, d, t, p.scale, p.groups, p.pin_layout) :
        p \in ParamChoices, d \in lists, t \in tokens}
    \cup {AllReduceSingle(g, p.reduce_type, t, p.scale, p.groups) :
        p \in ParamChoices, t \in tokens}

DimChoices == {1}

(***************************************************************************)
(* SpecSharding: a constructed graph (a leaf and a reduction node over it)  *)
(* whose nodes are annotated, cleared and marked.                          *)
(***************************************************************************)
InitSharding ==
    /\ nodes \in {Append(OneLeaf, r) :
                    r \in ReductionsOver(OneLeaf, SeqsUpTo({V(1, 0)}, MaxInputs),
                                         {V(1, 0)})}
    /\ loctx = EmptyContext
    /\ ret = NoCall

\* pre: whether the node carried annotations when the call was made
SetSharding(k, sharding, index) ==
    /\ index < nodes[k].num_outputs
    /\ nodes' = [nodes EXCEPT ![k] = SetShardingOn(nodes[k], sharding, index)]
    /\ ret' = Call("SetSharding", k, <<index>>, <<>>,
                   nodes[k].output_shardings # <<>>)
    /\ UNCHANGED loctx

ClearSharding(k) ==
    /\ nodes' = [nodes EXCEPT ![k] = ClearShardingOn(nodes[k])]
    /\ ret' = Call("ClearSharding", k, <<>>, <<>>,
                   nodes[k].output_shardings # <<>>)
    /\ UNCHANGED loctx

MarkDynamicDimension(k, dim) ==
    /\ nodes' = [nodes EXCEPT ![k] = MarkDynamicDimensionOn(nodes[k], dim)]
    /\ ret' = Call("MarkDynamicDimension", k, <<dim>>, <<>>, FALSE)
    /\ UNCHANGED loctx

NextSharding ==
    \/ \E k \in 1..Len(nodes), sharding \in Shardings,
          index \in 0..(MaxInputs + 1) : SetSharding(k, sharding, index)
    \/ \E k \in 1..Len(nodes) : ClearSharding(k)
    \/ \E k \in 1..Len(nodes), dim \in DimChoices : MarkDynamicDimension(k, dim)

SpecSharding == InitSharding /\ [][NextSharding]_vars

\* C2: in every state reached by SetSharding, ClearSharding and
\* MarkDynamicDimension calls, hash() of every node is shapeHash() when
\* shardingHash() is zero and HashCombine(shapeHash(), shardingHash())
\* otherwise.
C2_IdentityHash ==
    \A k \in 1..Len(nodes) :
       hash(nodes[k]) =
          IF shardingHash(nodes[k]) = 0 THEN shapeHash(nodes[k])
          ELSE HashCombine(shapeHash(nodes[k]), shardingHash(nodes[k]))

\* an annotated and marked node beside one that was never annotated
C2_Witness ==
    /\ \E k \in 1..Len(nodes) :
          /\ shardingHash(nodes[k]) # 0
          /\ nodes[k].unbounded_dynamic_dims # {}
          /\ hash(nodes[k]) # shapeHash(nodes[k])
    /\ \E k \in 1..Len(nodes) : shardingHash(nodes[k]) = 0

C4_ClearShardingResets ==
    ret.op = "ClearSharding" =>
       /\ shardingHash(nodes[ret.self]) = 0
       /\ hash(nodes[ret.self]) = shapeHash(nodes[ret.self])
       /\ \A i \in 0..(nodes[ret.self].num_outputs - 1) :
             GetSharding(nodes[ret.self], i) = NoSharding

\* ClearSharding was called on a node that carried annotations
C4_Witness ==
    /\ ret.op = "ClearSharding"
    /\ ret.pre
    /\ nodes[ret.self].num_outputs > 1

(***************************************************************************)
(* NodeCast.                                                               *)
(***************************************************************************)
\* the outcomes of a call: "nullptr", "node" (a pointer to the node, as T)
\* and "bad_cast" (dynamic_cast to a reference throws)
CastOutcomes == {"nullptr", "node", "bad_cast"}

\* NodeCast with the kind check compiled in debug builds only
NodeCast_CheckedInDebugOnly(node, op, T, ndebug) ==
    IF ndebug
    THEN IF IsA(node.class, T) THEN {"node"} ELSE CastOutcomes
    ELSE IF op # node.op THEN {"nullptr"}
         ELSE IF IsA(node.class, T) THEN {"node"} ELSE {"bad_cast"}

\* NodeCast<T>(node, op): the outcomes it may have. With NDEBUG a
\* static_cast to a class the node is not an object of is undefined.
NodeCast(node, op, T, ndebug) ==
    IF op # node.op THEN {"nullptr"}
    ELSE IF ndebug
         THEN IF IsA(node.class, T) THEN {"node"} ELSE CastOutcomes
         ELSE IF IsA(node.class, T) THEN {"node"} ELSE {"bad_cast"}

(***************************************************************************)
(* Lowering.                                                               *)
(***************************************************************************)
NoOp == 0

Emitted(ctx, output) == \E e \in ctx.emitted_outputs : e.output = output

\* GetOutputOp(output): the handle emitted for the output
GetOutputOp(ctx, output) ==
    (CHOOSE e \in ctx.emitted_outputs : e.output = output).op

\* the handles the builder gives out next
NewOps(ctx, count) == [i \in 1..count |-> ctx.num_ops + i]

\* BuildAllReduce(reduce_type, input, scale, groups): one handle
BuildAllReduceSingle(ctx, input) == NewOps(ctx, 1)

\* BuildAllReduce(reduce_type, inputs, token, scale, groups, pin_layout):
\* a handle per input and the updated token
BuildAllReduce(ctx, inputs, token) == NewOps(ctx, Len(inputs) + 1)

\* ReturnOps(ops, loctx): output i of the node is emitted as ops[i]
ReturnOps(ctx, k, ops) ==
    [emitted_outputs |-> ctx.emitted_outputs
        \cup {[output |-> V(k, i - 1), op |-> ops[i]] : i \in 1..Len(ops)},
     num_ops |-> ctx.num_ops + Len(ops)]

\* the loop with i < operand_list.size()
DataOperands_IncludesLast(operand_list) == operand_list

\* the operands the loop of Lower looks up: i + 1 < operand_list.size()
DataOperands(operand_list) == SubSeq(operand_list, 1, Len(operand_list) - 1)

\* operand_list.front() taken as the token
TokenOperand_Front(operand_list) == operand_list[1]

\* operand_list.back()
TokenOperand(operand_list) == operand_list[Len(operand_list)]

\* AllReduce::Lower(loctx): the operands it looks up, in order, the inputs
\* and the token it hands to the builder, and the handles it returns
Lower(ctx, n) ==
    IF ~n.has_token
    THEN [lookups |-> <<n.operands[1]>>,
          inputs |-> <<GetOutputOp(ctx, n.operands[1])>>,
          token |-> NoOp,
          ops |-> BuildAllReduceSingle(ctx, GetOutputOp(ctx, n.operands[1]))]
    ELSE LET data == DataOperands(n.operands)
             inputs == [i \in 1..Len(data) |-> GetOutputOp(ctx, data[i])]
             token == GetOutputOp(ctx, TokenOperand(n.operands))
         IN [lookups |-> Append(data, TokenOperand(n.operands)),
             inputs |-> inputs,
             token |-> token,
             ops |-> BuildAllReduce(ctx, inputs, token)]

(***************************************************************************)
(* SpecLowering: a constructed graph (two leaves and a reduction node      *)
(* over them) is lowered in topological order, each node once; NodeCast is *)
(* called on its nodes.                                                    *)
(***************************************************************************)
InitLowering ==
    /\ nodes \in UNION {{Append(TwoLeaves(op), r) :
                           r \in ReductionsOver(TwoLeaves(op),
                                    SeqsUpTo(Values(TwoLeaves(op)), MaxInputs),
                                    Values(TwoLeaves(op)))} : op \in OpKinds}
    /\ loctx = EmptyContext
    /\ ret = NoCall

Lowered(k) == \E e \in loctx.emitted_outputs : e.output.node = k

\* a leaf is lowered to one backend handle
LowerLeaf(k) ==
    /\ ~IsReduction(nodes[k])
    /\ ~Lowered(k)
    /\ loctx' = ReturnOps(loctx, k, NewOps(loctx, 1))
    /\ ret' = Call("LowerLeaf", k, <<>>, NewOps(loctx, 1), FALSE)
    /\ UNCHANGED nodes

\* nodes[k].Lower(loctx), once per node and after its operands
LowerNode(k) ==
    /\ IsReduction(nodes[k])
    /\ ~Lowered(k)
    /\ \A i \in 1..Len(nodes[k].operands) : Emitted(loctx, nodes[k].operands[i])
    /\ LET l == Lower(loctx, nodes[k]) IN
          /\ loctx' = ReturnOps(loctx, k, l.ops)
          /\ ret' = Call("Lower", k,
                         [lookups |-> l.lookups, inputs |-> l.inputs,
                          token |-> l.token],
                         l.ops, FALSE)
    /\ UNCHANGED nodes

NodeCastCall(k, op, T, ndebug) ==
    /\ \E r \in NodeCast(nodes[k], op, T, ndebug) :
          ret' = Call("NodeCast", k, [op |-> op, T |-> T, ndebug |-> ndebug],
                      r, FALSE)
    /\ UNCHANGED <<nodes, loctx>>

NextLowering ==
    \/ \E k \in 1..Len(nodes) : LowerLeaf(k)
    \/ \E k \in 1..Len(nodes) : LowerNode(k)
    \/ \E k \in 1..Len(nodes), op \in OpKinds, T \in NodeClasses,
          ndebug \in BOOLEAN : NodeCastCall(k, op, T, ndebug)

SpecLowering == InitLowering /\ [][NextLowering]_vars

LoweredNode == nodes[ret.self]

\* C5: Lower returns num_outputs handles: one for a no-token node, K + 1
\* for a token-bearing node with K data operands, the builder returning a
\* handle per data input and the updated token.
C5_LowerHandleCount ==
    ret.op = "Lower" =>
       /\ Len(ret.result) = LoweredNode.num_outputs
       /\ ~LoweredNode.has_token => Len(ret.result) = 1
       /\ LoweredNode.has_token =>
             Len(ret.result) = (Len(LoweredNode.operands) - 1) + 1
       /\ \A i \in 0..(LoweredNode.num_outputs - 1) :
             Emitted(loctx, V(ret.self, i))

\* a token-bearing node with two data operands was lowered
C5_Witness ==
    /\ ret.op = "Lower"
    /\ LoweredNode.has_token
    /\ Len(LoweredNode.operands) = 3
    /\ Len(ret.result) = 3

\* C10: lowering a token-bearing node with operands o[0..n-1] looks up
\* o[0..n-2], in order, as the data inputs and o[n-1] as the token, each
\* operand once; lowering a no-token node looks up o[0] only and passes no
\* token. Every lookup is of a handle emitted before the call.
C10_LowerLookups ==
    ret.op = "Lower" =>
       LET o == LoweredNode.operands IN
       /\ IF LoweredNode.has_token
          THEN /\ ret.args.lookups = o
               /\ ret.args.inputs
                    = [i \in 1..(Len(o) - 1) |-> GetOutputOp(loctx, o[i])]
               /\ ret.args.token = GetOutputOp(loctx, o[Len(o)])
          ELSE /\ ret.args.lookups = <<o[1]>>
               /\ ret.args.inputs = <<GetOutputOp(loctx, o[1])>>
               /\ ret.args.token = NoOp
       /\ \A i \in 1..Len(ret.args.lookups) :
             /\ ret.args.lookups[i].node # ret.self
             /\ Emitted(loctx, ret.args.lookups[i])

\* a token-bearing node was lowered whose two data operands and token are
\* not all the same value
C10_Witness ==
    /\ ret.op = "Lower"
    /\ LoweredNode.has_token
    /\ Len(LoweredNode.operands) = 3
    /\ LoweredNode.operands[1] # LoweredNode.operands[2]
    /\ LoweredNode.operands[1] # LoweredNode.operands[3]
    /\ ret.args.inputs[1] # ret.args.inputs[2]

\* C9: NodeCast returns null whenever the node's kind is not the expected
\* kind, with and without NDEBUG, and a pointer to the node only when the
\* kinds are equal.
C9_NodeCastKindCheck ==
    ret.op = "NodeCast" =>
       /\ ret.args.op # nodes[ret.self].op => ret.result = "nullptr"
       /\ ret.result = "node" => ret.args.op = nodes[ret.self].op

\* NodeCast was called without the debug checks on a node of another kind
C9_Witness ==
    /\ ret.op = "NodeCast"
    /\ ret.args.ndebug
    /\ ret.args.op # nodes[ret.self].op
    /\ ret.result = "nullptr"

====
